---- MODULE Spec2Model ----
(***************************************************************************)
(* CSV ingestion pipeline of go-historical-data:                           *)
(*   pkg/csvparser (Parser.ParseHeader / ParseRow / field parsers),        *)
(*   internal/service (historicalService.UploadCSV / validateCSVRow),      *)
(*   internal/repository (historicalRepository.BulkCreate).                *)
(*                                                                         *)
(* One upload is a sequential process; pc is its position in UploadCSV.    *)
(* The byte stream is the environment: each read of the csv.Reader         *)
(* delivers the next item (a record, a structurally malformed line, an     *)
(* I/O error, or end-of-stream).  input is the history of items delivered  *)
(* after the header, calls the history of BulkCreate invocations.          *)
(***************************************************************************)
EXTENDS Integers, Sequences, FiniteSets, TLC

\* ---------------------------------------------------------------- bounds
\* number of stream items delivered after the header in one upload
MaxRows == 4
\* const batchSize = 1000 (historical_service.go:107), scaled down
batchSize == 2
\* the literal 100 capping the error list (historical_service.go:179), scaled down
ErrorCap == 2

NULL == [null |-> TRUE]

\* ------------------------------------------------------------ raw text
\* A text cell is its letters (lower case), whether the letters are upper
\* case in the file, and whether white space surrounds them.
Text(s, upper, pad) == [s |-> s, upper |-> upper, pad |-> pad]
Plain(s) == Text(s, FALSE, FALSE)

\* strings.ToLower / strings.ToUpper / strings.TrimSpace
ToLower(t) == [t EXCEPT !.upper = FALSE]
ToUpper(t) == [t EXCEPT !.upper = (t.s # "")]
TrimSpace(t) == [t EXCEPT !.pad = FALSE]
IsEmptyText(t) == t.s = "" /\ ~t.pad

\* A numeric cell: digits with a value, the empty text, or text that is no number.
Num(v) == [t |-> "num", v |-> v]
EmptyNum == [t |-> "empty", v |-> 0]
JunkNum == [t |-> "junk", v |-> 0]

\* A date cell: three numeric groups and their separator, or text that is no date.
\* Groups are written zero padded; a group >= 1000 is four digits wide.
DateText(a, sep, b, c) ==
    [t |-> "date", a |-> a, b |-> b, c |-> c, sep |-> sep, pad |-> FALSE]
JunkDate == [t |-> "junk", a |-> 0, b |-> 0, c |-> 0, sep |-> "", pad |-> FALSE]

Date(y, m, d) == [y |-> y, m |-> m, d |-> d]
ZeroDate == Date(1, 1, 1)
\* time.Time.After on calendar dates
After(d1, d2) ==
    \/ d1.y > d2.y
    \/ d1.y = d2.y /\ d1.m > d2.m
    \/ d1.y = d2.y /\ d1.m = d2.m /\ d1.d > d2.d

IsLeap(y) == (y % 4 = 0 /\ y % 100 # 0) \/ y % 400 = 0
DaysIn(y, m) ==
    IF m \in {4, 6, 9, 11} THEN 30
    ELSE IF m = 2 THEN (IF IsLeap(y) THEN 29 ELSE 28)
    ELSE 31

\* ------------------------------------------------------- field parsers
supportedFormatsMonthFirst ==
    << [sep |-> "-", order |-> "YMD"],
       [sep |-> "/", order |-> "MDY"],
       [sep |-> "-", order |-> "MDY"],
       [sep |-> "/", order |-> "YMD"],
       [sep |-> "-", order |-> "DMY"] >>

\* supportedFormats, in the order NewParser lists them
supportedFormats ==
    << [sep |-> "-", order |-> "YMD"],     \* 2006-01-02
       [sep |-> "/", order |-> "MDY"],     \* 01/02/2006
       [sep |-> "-", order |-> "DMY"],     \* 02-01-2006
       [sep |-> "/", order |-> "YMD"],     \* 2006/01/02
       [sep |-> "-", order |-> "MDY"] >>   \* 01-02-2006

\* time.Parse(format, dateStr): the groups in the format's order, the year
\* four digits, month 1..12, day within the month.
TimeParse(format, c) ==
    LET y == IF format.order = "YMD" THEN c.a ELSE c.c
        m == CASE format.order = "YMD" -> c.b
               [] format.order = "MDY" -> c.a
               [] format.order = "DMY" -> c.b
        d == CASE format.order = "YMD" -> c.c
               [] format.order = "MDY" -> c.b
               [] format.order = "DMY" -> c.a
        other1 == IF format.order = "YMD" THEN c.b ELSE c.a
        other2 == IF format.order = "YMD" THEN c.c ELSE c.b
        ok == /\ c.t = "date" /\ ~c.pad
              /\ c.sep = format.sep
              /\ y >= 1000 /\ y <= 9999
              /\ other1 < 100 /\ other2 < 100
              /\ m >= 1 /\ m <= 12
              /\ d >= 1 /\ d <= DaysIn(y, m)
    IN  IF ok THEN [ok |-> TRUE, date |-> Date(y, m, d)]
        ELSE [ok |-> FALSE, date |-> ZeroDate]

RECURSIVE parseDateFrom(_, _)
parseDateFrom(i, c) ==
    IF i > Len(supportedFormats) THEN [ok |-> FALSE, date |-> ZeroDate]
    ELSE LET r == TimeParse(supportedFormats[i], c)
         IN  IF r.ok THEN r ELSE parseDateFrom(i + 1, c)

\* Parser.parseDate: the first format that parses
parseDate(c) == parseDateFrom(1, c)

parseFloatAllowsNegative(c) ==
    IF c.t = "empty" THEN [ok |-> FALSE, val |-> 0]
    ELSE IF c.t # "num" THEN [ok |-> FALSE, val |-> 0]
    ELSE [ok |-> TRUE, val |-> c.v]

\* Parser.parseFloat: empty -> error, not a number -> error, negative -> error
parseFloat(c) ==
    IF c.t = "empty" THEN [ok |-> FALSE, val |-> 0]
    ELSE IF c.t # "num" THEN [ok |-> FALSE, val |-> 0]
    ELSE IF c.v < 0 THEN [ok |-> FALSE, val |-> 0]
    ELSE [ok |-> TRUE, val |-> c.v]

\* Parser.parseUint: empty -> 0, otherwise an unsigned integer
parseUint(c) ==
    IF c.t = "empty" THEN [ok |-> TRUE, val |-> 0]
    ELSE IF c.t # "num" \/ c.v < 0 THEN [ok |-> FALSE, val |-> 0]
    ELSE [ok |-> TRUE, val |-> c.v]

\* ------------------------------------------------------------ csv.Reader
\* What one read of the byte stream delivers.
RecItem(cells) == [kind |-> "rec", cells |-> cells]
QuoteItem == [kind |-> "quote", cells |-> <<>>]
IOErrItem == [kind |-> "ioerr", cells |-> <<>>]
EOFItem == [kind |-> "eof", cells |-> <<>>]

\* csv.Reader.Read with FieldsPerRecord = 0: the first record fixes the field
\* count (nfields = 0 before it); a later record of another length is
\* ErrFieldCount.  Returns the error ("" for none) and the record.
csvRead(item, nfields) ==
    CASE item.kind = "eof" -> [err |-> "EOF", record |-> <<>>]
      [] item.kind = "ioerr" -> [err |-> "io", record |-> <<>>]
      [] item.kind = "quote" -> [err |-> "csv: bare quote", record |-> <<>>]
      [] item.kind = "rec" ->
            IF nfields # 0 /\ Len(item.cells) # nfields
            THEN [err |-> "csv: wrong number of fields", record |-> item.cells]
            ELSE [err |-> "", record |-> item.cells]

\* --------------------------------------------------------------- Parser
requiredHeaders == <<"symbol", "date", "open", "high", "low", "close", "volume">>

HeaderIndexesCaseSensitive(header) ==
    LET norm(i) == TrimSpace(header[i])
        names == {norm(i) : i \in 1..Len(header)}
    IN  [n \in names |->
            CHOOSE i \in 1..Len(header) :
                /\ norm(i) = n
                /\ \A j \in 1..Len(header) : norm(j) = n => j <= i]

\* the loop of ParseHeader filling headerIndexes: the last column of a name wins
HeaderIndexes(header) ==
    LET norm(i) == ToLower(TrimSpace(header[i]))
        names == {norm(i) : i \in 1..Len(header)}
    IN  [n \in names |->
            CHOOSE i \in 1..Len(header) :
                /\ norm(i) = n
                /\ \A j \in 1..Len(header) : norm(j) = n => j <= i]

RECURSIVE FirstMissingSkipsLast(_, _)
FirstMissingSkipsLast(i, idx) ==
    IF i >= Len(requiredHeaders) THEN ""
    ELSE IF Plain(requiredHeaders[i]) \notin DOMAIN idx THEN requiredHeaders[i]
    ELSE FirstMissingSkipsLast(i + 1, idx)

\* the loop over requiredHeaders in ParseHeader (lines 82-87): the first
\* required name that is no key of headerIndexes, "" when none is missing
RECURSIVE FirstMissing(_, _)
FirstMissing(i, idx) ==
    IF i > Len(requiredHeaders) THEN ""
    ELSE IF Plain(requiredHeaders[i]) \notin DOMAIN idx THEN requiredHeaders[i]
    ELSE FirstMissing(i + 1, idx)

\* Parser.ParseHeader on the first item of the stream: the error ("" for none)
\* and the parser's fields afterwards.
ParseHeader(item) ==
    LET rd == csvRead(item, 0)
    IN  IF rd.err # ""
        THEN [err |-> "failed to read header", missing |-> "",
              currentLine |-> 0, headerIndexes |-> <<>>, nfields |-> 0]
        ELSE LET idx == HeaderIndexes(rd.record)
                 miss == FirstMissing(1, idx)
             IN  [err |-> IF miss = "" THEN "" ELSE "missing required header",
                  missing |-> miss,
                  currentLine |-> 1, headerIndexes |-> idx,
                  nfields |-> Len(rd.record)]

ParseError(line, field, value, message) ==
    [kind |-> "ParseError", Line |-> line, Field |-> field, Value |-> value,
     Message |-> message]

Row(symbol, date, open, high, low, close, volume) ==
    [Symbol |-> symbol, Date |-> date, Open |-> open, High |-> high,
     Low |-> low, Close |-> close, Volume |-> volume]
ZeroRow == Row(Plain(""), ZeroDate, 0, 0, 0, 0, 0)

DecodeRowPricesFirst(record, idx, line) ==
    LET cell(n) == record[idx[Plain(n)]]
        symbol == TrimSpace(ToUpper(cell("symbol")))
        date == parseDate(TrimSpace(cell("date")))
        open == parseFloat(cell("open"))
        high == parseFloat(cell("high"))
        low == parseFloat(cell("low"))
        close == parseFloat(cell("close"))
        volume == parseUint(cell("volume"))
        fail(field, value, msg) ==
            [ok |-> FALSE, row |-> ZeroRow, err |-> ParseError(line, field, value, msg)]
    IN  IF IsEmptyText(symbol)
            THEN fail("symbol", cell("symbol"), "symbol cannot be empty")
        ELSE IF ~open.ok THEN fail("open", cell("open"), "must be a valid number")
        ELSE IF ~high.ok THEN fail("high", cell("high"), "must be a valid number")
        ELSE IF ~low.ok THEN fail("low", cell("low"), "must be a valid number")
        ELSE IF ~close.ok THEN fail("close", cell("close"), "must be a valid number")
        ELSE IF ~date.ok
            THEN fail("date", TrimSpace(cell("date")), "invalid date format")
        ELSE IF ~volume.ok
            THEN fail("volume", cell("volume"), "must be a valid non-negative integer")
        ELSE [ok |-> TRUE,
              row |-> Row(symbol, date.date, open.val, high.val, low.val,
                          close.val, volume.val),
              err |-> NULL]

\* The decoding part of Parser.ParseRow (after the read and currentLine++):
\* the seven fields in order, stopping at the first that fails.
DecodeRow(record, idx, line) ==
    LET cell(n) == record[idx[Plain(n)]]
        symbol == TrimSpace(ToUpper(cell("symbol")))
        date == parseDate(TrimSpace(cell("date")))
        open == parseFloat(cell("open"))
        high == parseFloat(cell("high"))
        low == parseFloat(cell("low"))
        close == parseFloat(cell("close"))
        volume == parseUint(cell("volume"))
        fail(field, value, msg) ==
            [ok |-> FALSE, row |-> ZeroRow, err |-> ParseError(line, field, value, msg)]
    IN  IF IsEmptyText(symbol)
            THEN fail("symbol", cell("symbol"), "symbol cannot be empty")
        ELSE IF ~date.ok
            THEN fail("date", TrimSpace(cell("date")), "invalid date format")
        ELSE IF ~open.ok THEN fail("open", cell("open"), "must be a valid number")
        ELSE IF ~high.ok THEN fail("high", cell("high"), "must be a valid number")
        ELSE IF ~low.ok THEN fail("low", cell("low"), "must be a valid number")
        ELSE IF ~close.ok THEN fail("close", cell("close"), "must be a valid number")
        ELSE IF ~volume.ok
            THEN fail("volume", cell("volume"), "must be a valid non-negative integer")
        ELSE [ok |-> TRUE,
              row |-> Row(symbol, date.date, open.val, high.val, low.val,
                          close.val, volume.val),
              err |-> NULL]

\* Parser.ParseRow: read one record; a read error is returned as it is and
\* leaves currentLine alone; otherwise currentLine++ and the record is decoded.
\* status is "eof", "error" or "row".
ParseRow(item, idx, nfields, currentLine) ==
    LET rd == csvRead(item, nfields)
    IN  IF rd.err = "EOF"
            THEN [status |-> "eof", row |-> ZeroRow, err |-> NULL,
                  currentLine |-> currentLine]
        ELSE IF rd.err # ""
            THEN [status |-> "error", row |-> ZeroRow,
                  err |-> [kind |-> "ReadError", text |-> rd.err],
                  currentLine |-> currentLine]
        ELSE LET dec == DecodeRow(rd.record, idx, currentLine + 1)
             IN  [status |-> IF dec.ok THEN "row" ELSE "error",
                  row |-> dec.row, err |-> dec.err,
                  currentLine |-> currentLine + 1]

\* ------------------------------------------------------------ validator
\* the clock read by validateCSVRow
Now == Date(2024, 6, 15)

validateCSVRowSkipsPositivity(row) ==
    IF row.High < row.Low THEN "high price must be greater than or equal to low price"
    ELSE IF row.Open < row.Low \/ row.Open > row.High
        THEN "open price must be between low and high"
    ELSE IF row.Close < row.Low \/ row.Close > row.High
        THEN "close price must be between low and high"
    ELSE IF After(row.Date, Now) THEN "date cannot be in the future"
    ELSE ""

validateCSVRowPositivityFirst(row) ==
    IF row.High < row.Low THEN "high price must be greater than or equal to low price"
    ELSE IF row.Open < row.Low \/ row.Open > row.High
        THEN "open price must be between low and high"
    ELSE IF row.Close < row.Low \/ row.Close > row.High
        THEN "close price must be between low and high"
    ELSE IF row.Open <= 0 \/ row.High <= 0 \/ row.Low <= 0 \/ row.Close <= 0
        THEN "all prices must be positive"
    ELSE IF After(row.Date, Now) THEN "date cannot be in the future"
    ELSE ""

\* historicalService.validateCSVRow: "" when the row is valid, else the rule
\* of the first failing check, in the order of the code.
validateCSVRow(row) ==
    IF row.High < row.Low THEN "high price must be greater than or equal to low price"
    ELSE IF row.Open < row.Low \/ row.Open > row.High
        THEN "open price must be between low and high"
    ELSE IF row.Close < row.Low \/ row.Close > row.High
        THEN "close price must be between low and high"
    ELSE IF After(row.Date, Now) THEN "date cannot be in the future"
    ELSE IF row.Open <= 0 \/ row.High <= 0 \/ row.Low <= 0 \/ row.Close <= 0
        THEN "all prices must be positive"
    ELSE ""

\* ----------------------------------------------------------- repository
\* A persisted record of table historical_data.
Persisted(id, row, created, updated) ==
    [ID |-> id, Symbol |-> row.Symbol, Date |-> row.Date, Open |-> row.Open,
     High |-> row.High, Low |-> row.Low, Close |-> row.Close,
     Volume |-> row.Volume, CreatedAt |-> created, UpdatedAt |-> updated]

UpsertOneAlwaysInserts(db, row, t) ==
    [db EXCEPT !.rows = db.rows \cup {Persisted(db.nextID, row, t, t)},
               !.nextID = db.nextID + 1]

UpsertOneReplaces(db, row, t) ==
    LET hit == {r \in db.rows : r.Symbol = row.Symbol /\ r.Date = row.Date}
    IN  [db EXCEPT !.rows = (db.rows \ hit) \cup {Persisted(db.nextID, row, t, t)},
                   !.nextID = db.nextID + 1]

UpsertOneKeepsStored(db, row, t) ==
    LET hit == {r \in db.rows : r.Symbol = row.Symbol /\ r.Date = row.Date}
    IN  IF hit # {}
        THEN db
        ELSE [db EXCEPT !.rows = db.rows \cup {Persisted(db.nextID, row, t, t)},
                        !.nextID = db.nextID + 1]

\* INSERT ... ON DUPLICATE KEY UPDATE of one row at time t: a record with the
\* row's (symbol, date) gets open, high, low, close, volume, updated_at
\* assigned; otherwise the row is inserted with the next identifier.
UpsertOne(db, row, t) ==
    LET hit == {r \in db.rows : r.Symbol = row.Symbol /\ r.Date = row.Date}
    IN  IF hit # {}
        THEN [db EXCEPT !.rows =
                (db.rows \ hit) \cup
                {[r EXCEPT !.Open = row.Open, !.High = row.High, !.Low = row.Low,
                           !.Close = row.Close, !.Volume = row.Volume,
                           !.UpdatedAt = t] : r \in hit}]
        ELSE [db EXCEPT !.rows = db.rows \cup {Persisted(db.nextID, row, t, t)},
                        !.nextID = db.nextID + 1]

RECURSIVE UpsertFrom(_, _, _, _)
UpsertFrom(db, data, i, t) ==
    IF i > Len(data) THEN db
    ELSE UpsertFrom(UpsertOne(db, data[i], t), data, i + 1, t)

BulkCreateNotAtomic(db, data, dbOK) ==
    IF Len(data) = 0 THEN [err |-> "", db |-> db]
    ELSE IF dbOK
        THEN [err |-> "",
              db |-> [UpsertFrom(db, data, 1, db.clock) EXCEPT !.clock = db.clock + 1]]
    ELSE [err |-> "failed to bulk create historical data",
          db |-> [UpsertOne(db, data[1], db.clock) EXCEPT !.clock = db.clock + 1]]

\* historicalRepository.BulkCreate(data, batchSize); dbOK is whether the
\* database executes the statement.  An empty slice returns nil at once.
BulkCreate(db, data, dbOK) ==
    IF Len(data) = 0 THEN [err |-> "", db |-> db]
    ELSE IF dbOK
        THEN [err |-> "",
              db |-> [UpsertFrom(db, data, 1, db.clock) EXCEPT !.clock = db.clock + 1]]
    ELSE [err |-> "failed to bulk create historical data", db |-> db]

\* -------------------------------------------------------------- inputs
SymA == Text("aapl", FALSE, FALSE)
SymM == Text("msft", TRUE, TRUE)

\* the header line "Symbol, date ,open,high,low,close,volume"
GoodHeader ==
    <<Text("symbol", TRUE, FALSE), Text("date", FALSE, TRUE), Plain("open"),
      Plain("high"), Plain("low"), Plain("close"), Plain("volume")>>

\* GoodHeader without its k-th column
HeaderWithout(k) ==
    [i \in 1..(Len(GoodHeader) - 1) |->
        IF i < k THEN GoodHeader[i] ELSE GoodHeader[i + 1]]

\* what the first read of an upload may deliver
HeaderItems ==
    {RecItem(GoodHeader), EOFItem, IOErrItem, QuoteItem}
        \cup {RecItem(HeaderWithout(k)) : k \in 1..Len(GoodHeader)}

\* aapl,2024-01-02,2,3,1,2,10 : valid
LineA == <<SymA, DateText(2024, "-", 1, 2), Num(2), Num(3), Num(1), Num(2), Num(10)>>
\* " MSFT ",01/03/2024,5,6,4,5, : valid, blank volume
LineM == <<SymM, DateText(1, "/", 3, 2024), Num(5), Num(6), Num(4), Num(5), EmptyNum>>
\* open above high: decodes, fails validation
LineBadOHLC == <<SymA, DateText(2024, "-", 1, 3), Num(4), Num(3), Num(1), Num(2), Num(10)>>
\* open is no number: fails to decode
LineBadOpen == <<SymA, DateText(2024, "-", 1, 4), JunkNum, Num(3), Num(1), Num(2), Num(10)>>
\* one field short: csv.ErrFieldCount
LineShort == <<SymA, DateText(2024, "-", 1, 5), Num(2), Num(3), Num(1), Num(2)>>

\* high below low
LineHighLow == <<SymA, DateText(2024, "-", 1, 6), Num(2), Num(1), Num(3), Num(2), Num(10)>>
\* close above high
LineBadClose == <<SymA, DateText(2024, "-", 1, 7), Num(2), Num(3), Num(1), Num(4), Num(10)>>
\* open and close both above high
LineOpenClose ==
    <<SymA, DateText(2024, "-", 1, 9), Num(4), Num(3), Num(1), Num(4), Num(10)>>
\* every price 0: the three range rules hold, positivity does not
LineZero == <<SymA, DateText(2024, "-", 1, 8), Num(0), Num(0), Num(0), Num(0), Num(10)>>
\* prices in order and positive, dated after the clock
LineFuture == <<SymA, DateText(2024, "-", 6, 16), Num(2), Num(3), Num(1), Num(2), Num(10)>>
\* every price 0 and dated after the clock
LineZeroFuture ==
    <<SymA, DateText(2024, "-", 6, 16), Num(0), Num(0), Num(0), Num(0), Num(10)>>

\* what a read after the header may deliver, besides end-of-stream
StreamItems ==
    {RecItem(LineA), RecItem(LineM), RecItem(LineBadOHLC), RecItem(LineBadOpen),
     RecItem(LineShort), IOErrItem}

\* a stream of well-formed lines, one for each way validateCSVRow can reject
ValidationItems ==
    {RecItem(LineA), RecItem(LineHighLow), RecItem(LineBadOHLC), RecItem(LineBadClose),
     RecItem(LineOpenClose), RecItem(LineZero), RecItem(LineFuture),
     RecItem(LineZeroFuture)}

EmptyDB == [rows |-> {}, nextID |-> 1, clock |-> 1]
\* a store holding one record from an earlier upload
SeededDB ==
    [rows |-> {Persisted(1, Row(ToUpper(SymA), Date(2024, 1, 2), 9, 9, 9, 9, 9), 0, 0)},
     nextID |-> 2, clock |-> 1]

\* ---------------------------------------------------------------- state
VARIABLES
    pc,             \* position in UploadCSV
    currentLine,    \* Parser.currentLine
    headerIndexes,  \* Parser.headerIndexes
    nfields,        \* csv.Reader.FieldsPerRecord
    totalRows, successCount, failedCount, errors, batch,  \* UploadCSV locals
    result, fatal,  \* UploadCSV's two return values
    db,             \* table historical_data
    headerItem,     \* history: the first item the stream delivered
    input,          \* history: the items delivered after the header
    eof,            \* history: whether a read has delivered end-of-stream
    calls,          \* history: the BulkCreate calls of this upload
    db0,            \* history: the table when the upload began
    ctl,            \* HistoricalController.UploadCSV around this upload, or NULL
    peer            \* the locals of a second, concurrent UploadCSV call, or NULL

vars == <<pc, currentLine, headerIndexes, nfields, totalRows, successCount,
          failedCount, errors, batch, result, fatal, db, headerItem, input,
          eof, calls, db0, ctl, peer>>

parserVars == <<currentLine, headerIndexes, nfields>>
counterVars == <<totalRows, successCount, failedCount>>

Init ==
    /\ pc = "start"
    /\ currentLine = 0
    /\ headerIndexes = <<>>
    /\ nfields = 0
    /\ totalRows = 0 /\ successCount = 0 /\ failedCount = 0
    /\ errors = <<>>
    /\ batch = <<>>
    /\ result = NULL /\ fatal = NULL
    /\ db \in {EmptyDB, SeededDB}
    /\ db0 = db
    /\ headerItem = NULL
    /\ input = <<>>
    /\ eof = FALSE
    /\ calls = <<>>
    /\ ctl = NULL /\ peer = NULL

\* ------------------------------------------------------------ UploadCSV
\* model.HistoricalData built from a decoded row (lines 145-153)
ToModel(row) ==
    Row(row.Symbol, row.Date, row.Open, row.High, row.Low, row.Close, row.Volume)

BatchFullLate(b) == Len(b) > batchSize

\* len(batch) >= batchSize (line 156)
BatchFull(b) == Len(b) >= batchSize

KeepBatch(b) == b

\* batch = batch[:0] (line 164)
ClearBatch(b) == SubSeq(b, 1, 0)

\* the entry appended for a row ParseRow could not return (line 130)
RowErrorEntry(err) == err

\* fmt.Sprintf("line %d: %v", parser.GetCurrentLine(), err) (line 139)
ValidationEntry(line, msg) == [kind |-> "validation", Line |-> line, Message |-> msg]

FlushAccountPerRow(b, err, label) ==
    IF err # ""
    THEN [errs |-> [i \in 1..Len(b) |-> [kind |-> label, cause |-> err]],
          failed |-> Len(b), success |-> 0]
    ELSE [errs |-> <<>>, failed |-> 0, success |-> Len(b)]

FlushAccountEntryOnly(b, err, label) ==
    IF err # ""
    THEN [errs |-> <<[kind |-> label, cause |-> err]>>, failed |-> 0, success |-> 0]
    ELSE [errs |-> <<>>, failed |-> 0, success |-> Len(b)]

\* The accounting of one BulkCreate call on b that returned err, with the
\* label of its error entry (lines 157-163 and 170-175): what is appended to
\* errors and added to failedCount and successCount.
FlushAccount(b, err, label) ==
    IF err # ""
    THEN [errs |-> <<[kind |-> label, cause |-> err]>>, failed |-> Len(b), success |-> 0]
    ELSE [errs |-> <<>>, failed |-> 0, success |-> Len(b)]

AlwaysRemaining(b) == TRUE

\* the remaining batch is processed when len(batch) > 0 (line 169)
HasRemaining(b) == Len(b) > 0

\* The loop body works on the locals L = [totalRows, failedCount, errors,
\* batch] and says where control goes next: "reading" (continue, or the end
\* of the body), "flushing" (into the full-batch branch) or "final" (break).

\* lines 129-132: ParseRow returned an error other than io.EOF
OnRowErrorCountsRow(L, err) ==
    [L |-> [L EXCEPT !.errors = Append(@, RowErrorEntry(err)),
                     !.failedCount = @ + 1, !.totalRows = @ + 1],
     next |-> "reading"]

OnRowErrorBreaks(L, err) ==
    [L |-> [L EXCEPT !.errors = Append(@, RowErrorEntry(err)), !.failedCount = @ + 1],
     next |-> "final"]

OnRowError(L, err) ==
    [L |-> [L EXCEPT !.errors = Append(@, RowErrorEntry(err)), !.failedCount = @ + 1],
     next |-> "reading"]

OnInvalidRowNotCounted(L, line, msg) ==
    [L |-> [L EXCEPT !.errors = Append(@, ValidationEntry(line, msg)),
                     !.failedCount = @ + 1],
     next |-> "reading"]

\* lines 135-142: the row decoded and validateCSVRow returned msg
OnInvalidRow(L, line, msg) ==
    [L |-> [L EXCEPT !.totalRows = @ + 1,
                     !.errors = Append(@, ValidationEntry(line, msg)),
                     !.failedCount = @ + 1],
     next |-> "reading"]

OnValidRowKeepsReading(L, row) ==
    LET b == Append(L.batch, ToModel(row))
    IN  [L |-> [L EXCEPT !.totalRows = @ + 1, !.batch = b],
         next |-> "reading"]

\* lines 135, 144-156: the row decoded and is valid
OnValidRow(L, row) ==
    LET b == Append(L.batch, ToModel(row))
    IN  [L |-> [L EXCEPT !.totalRows = @ + 1, !.batch = b],
         next |-> IF BatchFull(b) THEN "flushing" ELSE "reading"]

LoopBodyIgnoresEOF(p, L) ==
    IF p.status = "eof" THEN [L |-> L, next |-> "reading"]
    ELSE IF p.status = "error" THEN OnRowError(L, p.err)
    ELSE IF validateCSVRow(p.row) # ""
        THEN OnInvalidRow(L, p.currentLine, validateCSVRow(p.row))
    ELSE OnValidRow(L, p.row)

\* lines 124-156 for one result p of ParseRow
LoopBody(p, L) ==
    IF p.status = "eof" THEN [L |-> L, next |-> "final"]
    ELSE IF p.status = "error" THEN OnRowError(L, p.err)
    ELSE IF validateCSVRow(p.row) # ""
        THEN OnInvalidRow(L, p.currentLine, validateCSVRow(p.row))
    ELSE OnValidRow(L, p.row)

CapErrorsOffByOne(errs) ==
    IF Len(errs) >= ErrorCap
    THEN Append(SubSeq(errs, 1, ErrorCap), [kind |-> "more", n |-> Len(errs) - ErrorCap])
    ELSE errs

\* lines 179-181: keep the first 100 entries and append the count of the rest
CapErrors(errs) ==
    IF Len(errs) > ErrorCap
    THEN Append(SubSeq(errs, 1, ErrorCap), [kind |-> "more", n |-> Len(errs) - ErrorCap])
    ELSE errs

\* lines 183-186
Message(failed) ==
    IF failed > 0
    THEN [text |-> "CSV file processed with %d errors", n |-> failed]
    ELSE [text |-> "CSV file processed successfully", n |-> 0]

ReportCountsEntries(total, success, failed, errs) ==
    [TotalRows |-> total, SuccessCount |-> success, FailedCount |-> failed,
     Errors |-> CapErrors(errs), Message |-> Message(Len(errs))]

\* lines 188-195
Report(total, success, failed, errs) ==
    [TotalRows |-> total, SuccessCount |-> success, FailedCount |-> failed,
     Errors |-> CapErrors(errs), Message |-> Message(failed)]

\* lines 109-114: NewParser, ParseHeader; a header error is returned at once
DoParseHeader ==
    /\ pc = "start"
    /\ \E item \in HeaderItems :
        LET h == ParseHeader(item)
        IN  /\ headerItem' = item
            /\ currentLine' = h.currentLine
            /\ headerIndexes' = h.headerIndexes
            /\ nfields' = h.nfields
            /\ IF h.err # ""
               THEN /\ fatal' = [msg |-> "invalid CSV header", cause |-> h.err,
                                 missing |-> h.missing]
                    /\ pc' = "done"
               ELSE /\ fatal' = fatal
                    /\ pc' = "reading"
    /\ UNCHANGED <<counterVars, errors, batch, result, db, input, eof, calls, db0,
                   ctl, peer>>

\* one iteration of the loop at lines 123-156: ParseRow and the loop body
ReadRowOf(items) ==
    /\ pc = "reading"
    /\ \E item \in (IF Len(input) < MaxRows THEN items ELSE {}) \cup {EOFItem} :
        LET p == ParseRow(item, headerIndexes, nfields, currentLine)
            r == LoopBody(p, [totalRows |-> totalRows, failedCount |-> failedCount,
                              errors |-> errors, batch |-> batch])
        IN  /\ currentLine' = p.currentLine
            /\ input' = IF p.status = "eof" THEN input ELSE Append(input, item)
            /\ eof' = (p.status = "eof")
            /\ totalRows' = r.L.totalRows
            /\ failedCount' = r.L.failedCount
            /\ errors' = r.L.errors
            /\ batch' = r.L.batch
            /\ pc' = r.next
    /\ UNCHANGED <<headerIndexes, nfields, successCount, result, fatal, db,
                   headerItem, calls, db0, ctl, peer>>

\* lines 157-164: the flush of a full batch inside the loop
FlushBatch ==
    /\ pc = "flushing"
    /\ \E dbOK \in BOOLEAN :
        LET r == BulkCreate(db, batch, dbOK)
            a == FlushAccount(batch, r.err, "batch insert error")
        IN  /\ db' = r.db
            /\ calls' = Append(calls, [rows |-> batch, err |-> r.err, final |-> FALSE])
            /\ errors' = errors \o a.errs
            /\ failedCount' = failedCount + a.failed
            /\ successCount' = successCount + a.success
    /\ batch' = ClearBatch(batch)
    /\ pc' = "reading"
    /\ UNCHANGED <<parserVars, totalRows, result, fatal, headerItem, input, eof, db0,
                   ctl, peer>>

\* lines 169-176: the flush of what is left after end-of-stream
FinalFlush ==
    /\ pc = "final"
    /\ IF HasRemaining(batch)
       THEN \E dbOK \in BOOLEAN :
            LET r == BulkCreate(db, batch, dbOK)
                a == FlushAccount(batch, r.err, "final batch insert error")
            IN  /\ db' = r.db
                /\ calls' = Append(calls, [rows |-> batch, err |-> r.err, final |-> TRUE])
                /\ errors' = errors \o a.errs
                /\ failedCount' = failedCount + a.failed
                /\ successCount' = successCount + a.success
       ELSE UNCHANGED <<db, calls, errors, failedCount, successCount>>
    /\ pc' = "report"
    /\ UNCHANGED <<parserVars, totalRows, batch, result, fatal, headerItem, input,
                   eof, db0, ctl, peer>>

\* lines 178-195: cap the errors, compose the message, return the report
ReturnReport ==
    /\ pc = "report"
    /\ result' = Report(totalRows, successCount, failedCount, errors)
    /\ pc' = "done"
    /\ UNCHANGED <<parserVars, counterVars, errors, batch, fatal, db, headerItem,
                   input, eof, calls, db0, ctl, peer>>

\* one turn of the loop over a stream of decodable and undecodable lines
ReadRow == ReadRowOf(StreamItems)

Next == DoParseHeader \/ ReadRow \/ FlushBatch \/ FinalFlush \/ ReturnReport

Spec == Init /\ [][Next]_vars

\* the goroutine running UploadCSV is scheduled as long as it has a step to take
FairSpec == Spec /\ WF_vars(Next)

\* the same upload over a stream of well-formed lines
ReadDecodedRow == ReadRowOf(ValidationItems)

NextValidation ==
    DoParseHeader \/ ReadDecodedRow \/ FlushBatch \/ FinalFlush \/ ReturnReport

SpecValidation == Init /\ [][NextValidation]_vars

\* ------------------------------------------------- ParseRow on one record
\* cells a record may hold in each column
SymbolCells == {SymA, SymM, Plain(""), Text("", FALSE, TRUE)}
PriceCells == {Num(2), EmptyNum, JunkNum, Num(-1)}
VolumeCells == {Num(10), EmptyNum, JunkNum, Num(-1)}
\* date texts of three groups, zero padded, with either separator
DateGroups == {1, 2, 12, 13, 29, 30, 31, 2023, 2024}
DateCells ==
    {DateText(a, sep, b, c) : a \in DateGroups, b \in DateGroups, c \in DateGroups,
                              sep \in {"-", "/"}}
\* a date with a blank after it, and text that is no date with one
PaddedDate == [DateText(2024, "-", 1, 2) EXCEPT !.pad = TRUE]
PaddedJunkDate == [JunkDate EXCEPT !.pad = TRUE]

\* records with any mix of good and bad cells, and good records of every date
ParseInputs ==
    {<<s, d, o, h, l, c, v>> :
        s \in SymbolCells, d \in {PaddedDate, JunkDate, PaddedJunkDate},
        o \in PriceCells, h \in PriceCells, l \in PriceCells, c \in PriceCells,
        v \in VolumeCells}
    \cup {<<SymA, d, Num(2), Num(3), Num(1), Num(2), Num(10)>> : d \in DateCells}

\* a parser that has read the header, at some line, about to read one record
InitParse ==
    /\ pc = "parse"
    /\ headerItem = RecItem(GoodHeader)
    /\ headerIndexes = ParseHeader(RecItem(GoodHeader)).headerIndexes
    /\ nfields = ParseHeader(RecItem(GoodHeader)).nfields
    /\ currentLine \in {1, 2}
    /\ \E cells \in ParseInputs : input = <<RecItem(cells)>>
    /\ totalRows = 0 /\ successCount = 0 /\ failedCount = 0
    /\ errors = <<>>
    /\ batch = <<>>
    /\ result = NULL /\ fatal = NULL
    /\ db = EmptyDB
    /\ db0 = db
    /\ eof = FALSE
    /\ calls = <<>>
    /\ ctl = NULL /\ peer = NULL

\* one call of Parser.ParseRow: result and fatal are the row and the error
CallParseRow ==
    /\ pc = "parse"
    /\ LET p == ParseRow(input[1], headerIndexes, nfields, currentLine)
       IN  /\ result' = IF p.status = "row" THEN p.row ELSE NULL
           /\ fatal' = p.err
           /\ currentLine' = p.currentLine
    /\ pc' = "parsed"
    /\ UNCHANGED <<headerIndexes, nfields, counterVars, errors, batch, db,
                   headerItem, input, eof, calls, db0, ctl, peer>>

NextParse == CallParseRow

SpecParse == InitParse /\ [][NextParse]_vars

\* ------------------------------------- HistoricalController.UploadCSV
\* aapl,2024-01-02,6,8,5,7,20 : valid, the key of LineA with other values
LineA2 == <<SymA, DateText(2024, "-", 1, 2), Num(6), Num(8), Num(5), Num(7), Num(20)>>
\* low is 0, the other prices positive and in order
LineZeroLow ==
    <<SymA, DateText(2024, "-", 1, 10), Num(2), Num(3), Num(0), Num(2), Num(10)>>
\* open is negative
LineNegOpen ==
    <<SymA, DateText(2024, "-", 1, 11), Num(-2), Num(3), Num(1), Num(2), Num(10)>>

\* the lines of an uploaded file
RequestItems ==
    {RecItem(LineA), RecItem(LineA2), RecItem(LineM), RecItem(LineZeroLow),
     RecItem(LineNegOpen)}

\* the controller before c.FormFile: no handle, no response, no metrics
NewRequest ==
    [pos |-> "form", opens |-> 0, closes |-> 0, http |-> 0, metrics |-> NULL]

\* the request arrives; the service is not called yet
InitRequest ==
    /\ pc = "idle"
    /\ ctl = NewRequest
    /\ peer = NULL
    /\ currentLine = 0
    /\ headerIndexes = <<>>
    /\ nfields = 0
    /\ totalRows = 0 /\ successCount = 0 /\ failedCount = 0
    /\ errors = <<>>
    /\ batch = <<>>
    /\ result = NULL /\ fatal = NULL
    /\ db \in {EmptyDB, SeededDB}
    /\ db0 = db
    /\ headerItem = NULL
    /\ input = <<>>
    /\ eof = FALSE
    /\ calls = <<>>

serviceVars ==
    <<currentLine, headerIndexes, nfields, totalRows, successCount, failedCount,
      errors, batch, result, fatal, db, headerItem, input, eof, calls, db0, peer>>

\* lines 85-97: no "file" part in the form, or a file that is no CSV
RejectRequest ==
    /\ ctl.pos = "form"
    /\ ctl' = [ctl EXCEPT !.pos = "returned", !.http = 400]
    /\ UNCHANGED <<pc, serviceVars>>

\* lines 106-116: file.Open; on success the close is deferred and the service
\* is called with the handle
OpenFile ==
    /\ ctl.pos = "form"
    /\ \E opened \in BOOLEAN :
        IF opened
        THEN /\ ctl' = [ctl EXCEPT !.pos = "serving", !.opens = @ + 1]
             /\ pc' = "start"
        ELSE /\ ctl' = [ctl EXCEPT !.pos = "returned", !.http = 500]
             /\ pc' = pc
    /\ UNCHANGED serviceVars

ErrorWhenNothingSucceeded(rep) ==
    IF rep.SuccessCount = 0 THEN "error"
    ELSE IF Len(rep.Errors) > 0 THEN "partial"
    ELSE "success"

\* lines 126-133: the status recorded for a report
UploadStatus(rep) ==
    IF Len(rep.Errors) > 0
    THEN (IF rep.SuccessCount = 0 THEN "error" ELSE "partial")
    ELSE "success"

ClosesOnReportOnly(err) == IF err # NULL THEN 0 ELSE 1

\* line 110: the deferred fileReader.Close() runs once when the handler
\* returns, whatever UploadCSV returned
DeferredCloses(err) == 1

\* lines 116-138: UploadCSV has returned; metrics, response, deferred close
FinishRequest ==
    /\ ctl.pos = "serving"
    /\ pc = "done"
    /\ ctl' = [ctl EXCEPT
                !.pos = "returned",
                !.http = IF fatal # NULL THEN 500 ELSE 200,
                !.metrics =
                    IF fatal # NULL
                    THEN [success |-> 0, failed |-> 0, status |-> "error"]
                    ELSE [success |-> result.SuccessCount,
                          failed |-> result.FailedCount,
                          status |-> UploadStatus(result)],
                !.closes = @ + DeferredCloses(fatal)]
    /\ UNCHANGED <<pc, serviceVars>>

\* one turn of the read loop over the lines of an uploaded file
ReadUploadedRow == ReadRowOf(RequestItems)

NextRequest ==
    \/ RejectRequest \/ OpenFile \/ FinishRequest
    \/ DoParseHeader \/ ReadUploadedRow \/ FlushBatch \/ FinalFlush \/ ReturnReport

SpecRequest == InitRequest /\ [][NextRequest]_vars

\* -------------------------------------------- two concurrent UploadCSV calls
\* A second call of UploadCSV runs beside the first on the same table.  Its
\* parser and locals (lines 109, 116-121) are the fields of the record peer;
\* outcomes lists, for each of its BulkCreate calls, whether it succeeded.
PeerRows == 2

NewUpload ==
    [pc |-> "start", currentLine |-> 0, headerIndexes |-> <<>>, nfields |-> 0,
     totalRows |-> 0, successCount |-> 0, failedCount |-> 0, errors |-> <<>>,
     batch |-> <<>>, result |-> NULL, fatal |-> NULL, headerItem |-> NULL,
     input |-> <<>>, eof |-> FALSE, outcomes |-> <<>>]

\* lines 109-114 on the locals u
StepHeader(u, item) ==
    LET h == ParseHeader(item)
    IN  [u EXCEPT !.headerItem = item,
                  !.currentLine = h.currentLine,
                  !.headerIndexes = h.headerIndexes,
                  !.nfields = h.nfields,
                  !.fatal = IF h.err # ""
                            THEN [msg |-> "invalid CSV header", cause |-> h.err,
                                  missing |-> h.missing]
                            ELSE @,
                  !.pc = IF h.err # "" THEN "done" ELSE "reading"]

\* lines 123-156 on the locals u, the parser standing at line
StepRead(u, item, line) ==
    LET p == ParseRow(item, u.headerIndexes, u.nfields, line)
        r == LoopBody(p, [totalRows |-> u.totalRows, failedCount |-> u.failedCount,
                          errors |-> u.errors, batch |-> u.batch])
    IN  [u EXCEPT !.currentLine = p.currentLine,
                  !.input = IF p.status = "eof" THEN @ ELSE Append(@, item),
                  !.eof = (p.status = "eof"),
                  !.totalRows = r.L.totalRows,
                  !.failedCount = r.L.failedCount,
                  !.errors = r.L.errors,
                  !.batch = r.L.batch,
                  !.pc = r.next]

\* lines 157-164 (in the loop) and 169-176 (after it) on the locals u and the
\* table: the locals and the table after the call
StepFlush(u, store, dbOK) ==
    LET final == u.pc = "final"
        r == BulkCreate(store, u.batch, dbOK)
        a == FlushAccount(u.batch, r.err,
                          IF final THEN "final batch insert error"
                          ELSE "batch insert error")
    IN  IF final /\ ~HasRemaining(u.batch)
        THEN [u |-> [u EXCEPT !.pc = "report"], db |-> store]
        ELSE [u |-> [u EXCEPT !.errors = @ \o a.errs,
                              !.failedCount = @ + a.failed,
                              !.successCount = @ + a.success,
                              !.outcomes = Append(@, dbOK),
                              !.batch = IF final THEN @ ELSE ClearBatch(@),
                              !.pc = IF final THEN "report" ELSE "reading"],
              db |-> r.db]

\* lines 178-195 on the locals u
StepReturn(u) ==
    [u EXCEPT !.result = Report(u.totalRows, u.successCount, u.failedCount, u.errors),
              !.pc = "done"]

ParserLineOfOtherCall(own, other) == other

\* the line counter a call's ParseRow works on: that of the parser the call
\* made for itself (line 109), whatever another call's parser counts
ParserLine(own, other) == own

\* what the streams of the two calls deliver
PairItems == {RecItem(LineA), RecItem(LineBadOpen)}
PeerHeaderItems == {RecItem(GoodHeader), EOFItem}

InitTwoUploads ==
    /\ pc = "start"
    /\ peer = NewUpload
    /\ ctl = NULL
    /\ currentLine = 0
    /\ headerIndexes = <<>>
    /\ nfields = 0
    /\ totalRows = 0 /\ successCount = 0 /\ failedCount = 0
    /\ errors = <<>>
    /\ batch = <<>>
    /\ result = NULL /\ fatal = NULL
    /\ db = EmptyDB
    /\ db0 = db
    /\ headerItem = NULL
    /\ input = <<>>
    /\ eof = FALSE
    /\ calls = <<>>

ownVars ==
    <<pc, currentLine, headerIndexes, nfields, totalRows, successCount, failedCount,
      errors, batch, result, fatal, headerItem, input, eof, calls, db0, ctl>>

PeerParseHeader ==
    /\ peer.pc = "start"
    /\ \E item \in PeerHeaderItems : peer' = StepHeader(peer, item)
    /\ UNCHANGED <<ownVars, db>>

PeerReadRow ==
    /\ peer.pc = "reading"
    /\ \E item \in (IF Len(peer.input) < PeerRows THEN PairItems ELSE {})
                        \cup {EOFItem} :
        peer' = StepRead(peer, item, ParserLine(peer.currentLine, currentLine))
    /\ UNCHANGED <<ownVars, db>>

PeerFlush ==
    /\ peer.pc \in {"flushing", "final"}
    /\ \E dbOK \in BOOLEAN :
        LET s == StepFlush(peer, db, dbOK)
        IN  peer' = s.u /\ db' = s.db
    /\ UNCHANGED ownVars

PeerReturnReport ==
    /\ peer.pc = "report"
    /\ peer' = StepReturn(peer)
    /\ UNCHANGED <<ownVars, db>>

\* one turn of the first call's read loop
ReadPairRow == ReadRowOf(PairItems)

NextTwoUploads ==
    \/ DoParseHeader \/ ReadPairRow \/ FlushBatch \/ FinalFlush \/ ReturnReport
    \/ PeerParseHeader \/ PeerReadRow \/ PeerFlush \/ PeerReturnReport

SpecTwoUploads == InitTwoUploads /\ [][NextTwoUploads]_vars

\* ------------------------- ParseHeader and ParseRow on any column layout
\* a column layout: the required field each column holds, 0 for a column
\* the parser does not know
Layouts ==
    {<<1, 2, 3, 4, 5, 6, 7>>, <<7, 6, 5, 4, 3, 2, 1>>, <<2, 3, 4, 5, 6, 7, 1>>,
     <<1, 2, 4, 3, 5, 6, 7>>, <<0, 1, 2, 3, 4, 5, 6, 7>>,
     <<1, 2, 3, 0, 4, 5, 6, 7>>, <<7, 6, 5, 4, 3, 2, 1, 0>>,
     <<0, 3, 1, 0, 6, 2, 7, 5, 4>>}

\* how the header names are written: all alike, or differing by column
HeaderStyles ==
    {[k \in 1..7 |-> [upper |-> u, pad |-> p]] : u \in BOOLEAN, p \in BOOLEAN}
        \cup {[k \in 1..7 |-> [upper |-> (k % 2 = 1), pad |-> (k % 3 = 0)]]}

\* name and cell of a column the parser does not know
ExtraName == Text("adj_close", TRUE, TRUE)
ExtraCell == JunkNum

HeaderOf(layout, style) ==
    [i \in 1..Len(layout) |->
        IF layout[i] = 0 THEN ExtraName
        ELSE Text(requiredHeaders[layout[i]], style[layout[i]].upper,
                  style[layout[i]].pad)]

RecordOf(layout, canon) ==
    [i \in 1..Len(layout) |-> IF layout[i] = 0 THEN ExtraCell ELSE canon[layout[i]]]

\* records in the canonical order, each column with a good and a bad cell of
\* its own, so that a cell read from the wrong column shows
CanonicalRecords ==
    {<<s, d, o, h, l, c, v>> :
        s \in {SymM, Plain("")}, d \in {PaddedDate, JunkDate},
        o \in {Num(2), JunkNum}, h \in {Num(4), Num(-1)}, l \in {Num(1), EmptyNum},
        c \in {Num(3), Num(-3)}, v \in {Num(10), Num(-10)}}

\* a new parser on a stream of a header line and one record
InitColumns ==
    /\ pc = "header"
    /\ \E layout \in Layouts, style \in HeaderStyles, canon \in CanonicalRecords :
        /\ headerItem = RecItem(HeaderOf(layout, style))
        /\ input = <<RecItem(RecordOf(layout, canon))>>
    /\ headerIndexes = <<>>
    /\ nfields = 0
    /\ currentLine = 0
    /\ totalRows = 0 /\ successCount = 0 /\ failedCount = 0
    /\ errors = <<>>
    /\ batch = <<>>
    /\ result = NULL /\ fatal = NULL
    /\ db = EmptyDB
    /\ db0 = db
    /\ eof = FALSE
    /\ calls = <<>>
    /\ ctl = NULL /\ peer = NULL

\* one call of Parser.ParseHeader; fatal is its error
CallParseHeader ==
    /\ pc = "header"
    /\ LET h == ParseHeader(headerItem)
       IN  /\ currentLine' = h.currentLine
           /\ headerIndexes' = h.headerIndexes
           /\ nfields' = h.nfields
           /\ IF h.err # ""
              THEN /\ fatal' = [cause |-> h.err, missing |-> h.missing]
                   /\ pc' = "done"
              ELSE /\ fatal' = fatal
                   /\ pc' = "parse"
    /\ UNCHANGED <<counterVars, errors, batch, result, db, headerItem, input, eof,
                   calls, db0, ctl, peer>>

NextColumns == CallParseHeader \/ CallParseRow

SpecColumns == InitColumns /\ [][NextColumns]_vars

\* --------------------------------- UploadCSV on a stream that breaks
\* how many failed reads the model counts one by one
MaxFailures == 2

\* The reader under the csv.Reader has started to fail: the stream delivered
\* a read error and delivers the same error on every read after it.
StreamBroken == input # <<>> /\ input[Len(input)].kind = "ioerr"

\* what a read may deliver while the stream is whole, and once it is broken
BrokenStreamItems ==
    IF StreamBroken THEN {IOErrItem}
    ELSE (IF Len(input) < MaxRows THEN {RecItem(LineA), IOErrItem} ELSE {})
            \cup {EOFItem}

\* entries of failed reads in the error list
ReadErrorEntries(errs) ==
    Cardinality({i \in 1..Len(errs) : errs[i] = [kind |-> "ReadError", text |-> "io"]})

\* line 124: one call of ParseRow; a row or end-of-stream goes through the
\* loop body at once, an error is handled in the step after
ReadBrokenStream ==
    /\ pc = "reading"
    /\ \E item \in BrokenStreamItems :
        LET p == ParseRow(item, headerIndexes, nfields, currentLine)
            L == [totalRows |-> totalRows, failedCount |-> failedCount,
                  errors |-> errors, batch |-> batch]
            r == IF p.status = "error" THEN [L |-> L, next |-> "rowerror"]
                 ELSE LoopBody(p, L)
        IN  /\ currentLine' = p.currentLine
            /\ input' = IF p.status = "eof" \/ StreamBroken THEN input
                        ELSE Append(input, item)
            /\ eof' = (p.status = "eof")
            /\ totalRows' = r.L.totalRows
            /\ failedCount' = r.L.failedCount
            /\ errors' = r.L.errors
            /\ batch' = r.L.batch
            /\ pc' = r.next
    /\ UNCHANGED <<headerIndexes, nfields, successCount, result, fatal, db,
                   headerItem, calls, db0, ctl, peer>>

\* lines 129-132: the error of the read is appended, failedCount++, continue.
\* The first MaxFailures failed reads are counted one by one; of the later
\* ones only the control flow is kept, the counters stay where they are.
RecordRowError ==
    /\ pc = "rowerror"
    /\ LET p == ParseRow(input[Len(input)], headerIndexes, nfields, currentLine)
           L == [totalRows |-> totalRows, failedCount |-> failedCount,
                 errors |-> errors, batch |-> batch]
           r == LoopBody(p, L)
       IN  /\ IF ReadErrorEntries(errors) < MaxFailures
              THEN /\ errors' = r.L.errors
                   /\ failedCount' = r.L.failedCount
              ELSE UNCHANGED <<errors, failedCount>>
           /\ pc' = r.next
    /\ UNCHANGED <<parserVars, totalRows, successCount, batch, result, fatal, db,
                   headerItem, input, eof, calls, db0, ctl, peer>>

NextBrokenStream ==
    \/ DoParseHeader \/ ReadBrokenStream \/ RecordRowError
    \/ FlushBatch \/ FinalFlush \/ ReturnReport

\* the goroutine running UploadCSV is scheduled as long as it has a step to take
SpecBrokenStream == Init /\ [][NextBrokenStream]_vars /\ WF_vars(NextBrokenStream)

\* ======================================================================
\* Properties
\* ======================================================================
Last(seq) == seq[Len(seq)]
Done == pc = "done"
Returned == result # NULL
HeaderOK == headerItem # NULL /\ ParseHeader(headerItem).err = ""

\* how ParseRow and the validator treat an item of the stream
Parsed(item) == ParseRow(item, headerIndexes, nfields, 0)
Decodes(item) == Parsed(item).status = "row"
IsValid(item) ==
    LET p == Parsed(item) IN p.status = "row" /\ validateCSVRow(p.row) = ""
FailsValidation(item) ==
    LET p == Parsed(item) IN p.status = "row" /\ validateCSVRow(p.row) # ""
NumDecoded == Cardinality({i \in 1..Len(input) : Decodes(input[i])})
NumUndecoded == Cardinality({i \in 1..Len(input) : ~Decodes(input[i])})
NumValid == Cardinality({i \in 1..Len(input) : IsValid(input[i])})

\* a step of the read loop that consumed an item ParseRow could not decode
DecodeFailStep ==
    /\ pc = "reading"
    /\ Len(input') = Len(input) + 1
    /\ ~Decodes(Last(input'))

\* C1: in every report, total_rows = success_count + failed_count, whatever
\* the rows of the stream and the outcomes of the upserts.
C1_TotalIsSuccessPlusFailed ==
    Returned => result.TotalRows = result.SuccessCount + result.FailedCount

\* C2: a row that fails to decode appends exactly one error entry, adds 1 to
\* failed_count and leaves total_rows, success_count and the pending batch
\* alone; the report's total_rows is the number of rows ParseRow returned.
C2_DecodeFailureAccounting ==
    /\ [][DecodeFailStep =>
            /\ Len(errors') = Len(errors) + 1
            /\ SubSeq(errors', 1, Len(errors)) = errors
            /\ failedCount' = failedCount + 1
            /\ totalRows' = totalRows
            /\ successCount' = successCount
            /\ batch' = batch]_vars
    /\ [](Returned => result.TotalRows = NumDecoded)

C2_Witness ==
    /\ Returned
    /\ NumUndecoded >= 2
    /\ \E i \in 1..Len(input) : IsValid(input[i])
    /\ \E i \in 1..Len(input) : FailsValidation(input[i])
    /\ result.TotalRows = 2

\* the valid rows of the input so far, in input order, as the batch holds them
RECURSIVE ValidRowsOf(_)
ValidRowsOf(items) ==
    IF items = <<>> THEN <<>>
    ELSE LET p == Parsed(Head(items))
         IN  (IF p.status = "row" /\ validateCSVRow(p.row) = ""
              THEN <<ToModel(p.row)>> ELSE <<>>) \o ValidRowsOf(Tail(items))
ValidRows == ValidRowsOf(input)

RECURSIVE FlatRows(_)
FlatRows(cs) == IF cs = <<>> THEN <<>> ELSE Head(cs).rows \o FlatRows(Tail(cs))

CeilDiv(a, b) == (a + b - 1) \div b
NumLoopCalls == Cardinality({i \in 1..Len(calls) : ~calls[i].final})
NumFinalCalls == Cardinality({i \in 1..Len(calls) : calls[i].final})
NumFailedCalls == Cardinality({i \in 1..Len(calls) : calls[i].err # ""})
\* a step that calls BulkCreate
CallStep == Len(calls') = Len(calls) + 1

\* C3: with V valid rows the upsert port is called ceil(V / batchSize) times:
\* V div batchSize calls inside the loop, each at once when the batch reaches
\* batchSize and before end-of-stream, and one final call after end-of-stream
\* exactly when V mod batchSize > 0.
C3_FlushCount ==
    /\ [](LET V == NumValid
          IN  /\ NumLoopCalls =
                    IF pc = "flushing" THEN V \div batchSize - 1 ELSE V \div batchSize
              /\ pc = "flushing" => V > 0 /\ V % batchSize = 0 /\ ~eof
              /\ pc \in {"start", "reading", "flushing", "final"} => NumFinalCalls = 0
              /\ pc \in {"report", "done"} =>
                    /\ NumFinalCalls = IF V % batchSize > 0 THEN 1 ELSE 0
                    /\ Len(calls) = CeilDiv(V, batchSize)
              /\ \A i \in 1..Len(calls) : calls[i].final => i = Len(calls))
    /\ [][/\ CallStep /\ ~Last(calls').final => ~eof /\ input' = input
          /\ CallStep /\ Last(calls').final => eof /\ input' = input
          /\ (Len(batch') >= batchSize /\ batch' # batch) => pc' = "flushing"
          /\ pc = "flushing" => CallStep]_vars

\* V = batchSize + 1: one flush in the loop, one final flush
C3_Witness ==
    /\ Done /\ Returned
    /\ NumValid = batchSize + 1
    /\ Len(calls) = 2 /\ ~calls[1].final /\ calls[2].final

\* C4: every BulkCreate call carries between 1 and batchSize rows: batchSize
\* in the loop, 1..batchSize-1 at the final flush; the pending batch is below
\* batchSize whenever a row is read.
C4_BatchSizes ==
    /\ \A i \in 1..Len(calls) :
        /\ Len(calls[i].rows) >= 1 /\ Len(calls[i].rows) <= batchSize
        /\ ~calls[i].final => Len(calls[i].rows) = batchSize
        /\ calls[i].final => Len(calls[i].rows) < batchSize
    /\ pc = "reading" => Len(batch) < batchSize

C4_Witness ==
    /\ Done
    /\ \E i \in 1..Len(calls) : ~calls[i].final /\ Len(calls[i].rows) = batchSize
    /\ \E i \in 1..Len(calls) : calls[i].final /\ Len(calls[i].rows) = batchSize - 1

\* C5: every valid row is handed to the upsert port in exactly one call,
\* failed or not: the calls' rows followed by the pending batch are the valid
\* rows in input order, the j-th in call ceil(j / batchSize) at position
\* ((j - 1) mod batchSize) + 1, and a flush in the loop empties the batch.
C5_EachValidRowOnce ==
    /\ [](LET flat == FlatRows(calls)
              pending == IF pc \in {"report", "done"} THEN <<>> ELSE batch
              valid == ValidRows
          IN  /\ flat \o pending = valid
              /\ \A j \in 1..Len(flat) :
                    calls[CeilDiv(j, batchSize)].rows[((j - 1) % batchSize) + 1]
                        = valid[j])
    /\ [][pc = "flushing" => batch' = <<>>]_vars

\* a failed flush followed by another flush, with distinct rows
C5_Witness ==
    /\ Done
    /\ Len(calls) = 2
    /\ calls[1].err # ""
    /\ LET valid == ValidRows
       IN  valid[1] # valid[2] /\ valid[batchSize + 1] = calls[2].rows[1]

\* C6: a successful flush of n rows adds n to success_count and nothing else;
\* a failed flush adds n to failed_count and exactly one error entry, labelled
\* as the final batch at the final flush.
C6_FlushAccounting ==
    [][CallStep =>
        LET c == Last(calls')
            n == Len(c.rows)
        IN  /\ c.rows = batch
            /\ totalRows' = totalRows
            /\ c.err = "" =>
                /\ successCount' = successCount + n
                /\ failedCount' = failedCount
                /\ errors' = errors
            /\ c.err # "" =>
                /\ failedCount' = failedCount + n
                /\ successCount' = successCount
                /\ Len(errors') = Len(errors) + 1
                /\ SubSeq(errors', 1, Len(errors)) = errors
                /\ Last(errors').kind =
                    IF c.final THEN "final batch insert error"
                    ELSE "batch insert error"]_vars

\* a failed flush of batchSize rows in the loop and a failed final flush
C6_Witness ==
    /\ Done /\ Returned
    /\ Len(calls) = 2
    /\ calls[1].err # "" /\ calls[2].err # "" /\ calls[2].final
    /\ result.FailedCount = batchSize + Len(calls[2].rows)
    /\ Len(errors) = 2

\* C7: after a good header nothing aborts the upload: the loop is left only
\* at end-of-stream, every valid row reaches a flush, and a report is
\* returned with a nil error; UploadCSV returns a report or an error, never
\* both, never neither.
C7_NoAbortAfterHeader ==
    LET ok == HeaderOK
    IN  /\ Done => (result = NULL) # (fatal = NULL)
        /\ fatal # NULL => ~ok /\ Done
        /\ ok /\ Done => Returned /\ fatal = NULL
        /\ ok /\ pc \in {"final", "report", "done"} => eof
        /\ Returned => /\ Len(FlatRows(calls)) = NumValid
                       /\ result.TotalRows = NumDecoded
                       /\ result.FailedCount >= NumUndecoded

\* a decode failure and a failed flush, then a later flush that succeeds
C7_Witness ==
    /\ Done /\ Returned /\ fatal = NULL
    /\ Len(input) >= 1 /\ ~Decodes(input[1])
    /\ Len(calls) = 2 /\ calls[1].err # "" /\ calls[2].err = ""
    /\ result.SuccessCount > 0

\* the header line has no column of a required name, or could not be read
LacksRequired(item) ==
    \/ item.kind # "rec"
    \/ \E k \in 1..Len(requiredHeaders) :
        \A i \in 1..Len(item.cells) :
            ToLower(TrimSpace(item.cells[i])) # Plain(requiredHeaders[k])

\* C8: a header without one of the required names, or an unreadable header,
\* gives a fatal error and no report; no data row is read, the upsert port is
\* not called and the store is unchanged.
C8_HeaderErrorIsFatal ==
    (headerItem # NULL /\ LacksRequired(headerItem)) =>
        /\ Done
        /\ fatal # NULL /\ result = NULL
        /\ input = <<>> /\ ~eof
        /\ calls = <<>>
        /\ db = db0
        /\ totalRows = 0 /\ failedCount = 0 /\ errors = <<>>

C8_Witness ==
    /\ Done
    /\ headerItem = RecItem(HeaderWithout(Len(GoodHeader)))
    /\ fatal # NULL /\ fatal.missing = "volume"
    /\ db0 = SeededDB

IOErrSeen == \E i \in 1..Len(input) : input[i].kind = "ioerr"

\* C9: an I/O error of the stream after the header aborts ingestion at once:
\* nothing is read after it and UploadCSV returns a fatal error, no report.
C9_StreamErrorIsFatal ==
    (Done /\ IOErrSeen) =>
        /\ result = NULL /\ fatal # NULL
        /\ Last(input).kind = "ioerr"
        /\ \A i \in 1..(Len(input) - 1) : input[i].kind # "ioerr"

\* C10: with E accumulated error entries the report lists them all in order
\* when E <= cap; otherwise the first cap entries in order and one entry
\* saying that E - cap more were truncated.  Never more than cap + 1 entries.
C10_ErrorCap ==
    Returned =>
        LET E == Len(errors)
            out == result.Errors
        IN  /\ E = NumUndecoded + (NumDecoded - NumValid) + NumFailedCalls
            /\ E <= ErrorCap => out = errors
            /\ E > ErrorCap =>
                /\ Len(out) = ErrorCap + 1
                /\ SubSeq(out, 1, ErrorCap) = SubSeq(errors, 1, ErrorCap)
                /\ out[ErrorCap + 1] = [kind |-> "more", n |-> E - ErrorCap]
            /\ Len(out) <= ErrorCap + 1

C10_Witness ==
    /\ Returned
    /\ Len(errors) = ErrorCap + 2
    /\ Len(result.Errors) = ErrorCap + 1
    /\ Last(result.Errors).n = 2

\* ---------------------------------------------------------------- C11
\* the five rules a row must satisfy to be upserted
RowInvariants(row) ==
    /\ row.Low <= row.High
    /\ row.Low <= row.Open /\ row.Open <= row.High
    /\ row.Low <= row.Close /\ row.Close <= row.High
    /\ row.Open > 0 /\ row.High > 0 /\ row.Low > 0 /\ row.Close > 0
    /\ ~After(row.Date, Now)

\* a step of the read loop that consumed a decoded row breaking some rule
InvalidRowStep ==
    /\ pc = "reading"
    /\ Len(input') = Len(input) + 1
    /\ LET p == Parsed(Last(input')) IN p.status = "row" /\ ~RowInvariants(p.row)

Breaks(rule, row) ==
    CASE rule = "high-low" -> row.High < row.Low
      [] rule = "open" -> row.Open < row.Low \/ row.Open > row.High
      [] rule = "close" -> row.Close < row.Low \/ row.Close > row.High
      [] rule = "positive" ->
            row.Open <= 0 \/ row.High <= 0 \/ row.Low <= 0 \/ row.Close <= 0
      [] rule = "future" -> After(row.Date, Now)

\* the message the report carries for a rule
RuleMessage(rule) ==
    CASE rule = "high-low" -> "high price must be greater than or equal to low price"
      [] rule = "open" -> "open price must be between low and high"
      [] rule = "close" -> "close price must be between low and high"
      [] rule = "positive" -> "all prices must be positive"
      [] rule = "future" -> "date cannot be in the future"

\* the first rule of the order that the row breaks
FirstBroken(order, row) ==
    order[CHOOSE i \in 1..Len(order) :
            /\ Breaks(order[i], row)
            /\ \A j \in 1..(i - 1) : ~Breaks(order[j], row)]

PositivityThenDate == <<"high-low", "open", "close", "positive", "future">>
DateThenPositivity == <<"high-low", "open", "close", "future", "positive">>

\* the entry appended by an InvalidRowStep reports the first broken rule of order
ReportsFirstOf(order) ==
    InvalidRowStep =>
        Last(errors').Message = RuleMessage(FirstBroken(order, Parsed(Last(input')).row))

\* C12 as stated: the validator reports the first rule broken in the order
\* low <= high, open in range, close in range, all prices positive, date not in
\* the future; a row with zero prices and a future date reports positivity.
C12_PositivityBeforeDate == [][ReportsFirstOf(PositivityThenDate)]_vars

\* C12 as amended: the validator reports the first rule broken in the order
\* low <= high, open in range, close in range, date not in the future, all
\* prices positive; a row with zero prices and a future date reports the date.
C12_DateBeforePositivity == [][ReportsFirstOf(DateThenPositivity)]_vars

C12_Witness ==
    /\ Len(input) >= 2
    /\ input[1] = RecItem(LineZeroFuture)
    /\ input[2] = RecItem(LineOpenClose)
    /\ Len(errors) >= 2
    /\ errors[1].Message = "date cannot be in the future"
    /\ errors[2].Message = "open price must be between low and high"

\* ---------------------------------------------------------------- C13
\* the data rows among the items read so far (an I/O error is no row)
RowsRead(items) == Cardinality({i \in 1..Len(items) : items[i].kind # "ioerr"})

\* a step of the read loop that appended an entry carrying a line number
LineEntryStep ==
    /\ pc = "reading"
    /\ Len(input') = Len(input) + 1
    /\ Len(errors') = Len(errors) + 1
    /\ Last(errors').kind \in {"ParseError", "validation"}

\* C13: the line number attached to the error of the k-th data row is k + 1
\* (the header is line 1), also when earlier rows were structurally malformed
\* (wrong field count, bad quoting).
C13_LineIsRowPlusOne ==
    [][LineEntryStep => Last(errors').Line = RowsRead(input') + 1]_vars

\* ---------------------------------------------------------------- C14
FieldOrder == <<"symbol", "date", "open", "high", "low", "close", "volume">>

\* whether the cell of that column is one its field decoder rejects
CellRejected(field, c) ==
    CASE field = "symbol" -> c.s = ""
      [] field = "date" -> ~parseDate(TrimSpace(c)).ok
      [] field = "volume" -> ~parseUint(c).ok
      [] OTHER -> ~parseFloat(c).ok

\* the text a ParseError carries for a rejected cell: the cell as read, the
\* date without its surrounding blanks
ReportedValue(field, c) == IF field = "date" THEN TrimSpace(c) ELSE c

ValidDate(y, m, d) ==
    /\ y >= 1000 /\ y <= 9999
    /\ m >= 1 /\ m <= 12
    /\ d >= 1 /\ d <= DaysIn(y, m)

\* the reading of date text c that the documented order of formats gives:
\* YYYY-MM-DD, MM/DD/YYYY, DD-MM-YYYY, YYYY/MM/DD, MM-DD-YYYY, first match
ExpectedDate(c) ==
    LET no == [ok |-> FALSE, date |-> ZeroDate]
        yes(y, m, d) == [ok |-> TRUE, date |-> Date(y, m, d)]
    IN  IF c.t # "date" \/ c.pad THEN no
        ELSE IF c.sep = "-"
        THEN IF ValidDate(c.a, c.b, c.c) THEN yes(c.a, c.b, c.c)
             ELSE IF ValidDate(c.c, c.b, c.a) THEN yes(c.c, c.b, c.a)
             ELSE IF ValidDate(c.c, c.a, c.b) THEN yes(c.c, c.a, c.b)
             ELSE no
        ELSE IF ValidDate(c.c, c.a, c.b) THEN yes(c.c, c.a, c.b)
             ELSE IF ValidDate(c.a, c.b, c.c) THEN yes(c.a, c.b, c.c)
             ELSE no

\* C18: the date parser tries YYYY-MM-DD, MM/DD/YYYY, DD-MM-YYYY, YYYY/MM/DD,
\* MM-DD-YYYY in that order and returns the first match; the text A-B-YYYY with
\* A and B both in 1..12 is read as day A of month B, and A-B-YYYY is read as
\* month A, day B only when B cannot be a month.
C18_DateFormatOrder ==
    pc = "parsed" =>
        LET c == TrimSpace(input[1].cells[2])
            exp == ExpectedDate(c)
            dashed == c.t = "date" /\ c.sep = "-" /\ c.c >= 1000
        IN  /\ IF exp.ok
               THEN /\ result # NULL => result.Date = exp.date
                    /\ fatal # NULL => fatal.Field # "date"
               ELSE fatal # NULL /\ fatal.Field \in {"symbol", "date"}
            /\ (dashed /\ c.a \in 1..12 /\ c.b \in 1..12) =>
                    result # NULL /\ result.Date = Date(c.c, c.b, c.a)
            /\ (dashed /\ result # NULL /\ c.a # c.b
                    /\ result.Date = Date(c.c, c.a, c.b)) => c.b \notin 1..12

C18_Witness ==
    /\ pc = "parsed"
    /\ input[1].cells[2] = DateText(1, "-", 2, 2024)
    /\ result # NULL
    /\ result.Date = Date(2024, 2, 1)

\* the last format is reached: 12-13-2024 is December 13
C18_WitnessMonthFirst ==
    /\ pc = "parsed"
    /\ input[1].cells[2] = DateText(12, "-", 13, 2024)
    /\ result # NULL
    /\ result.Date = Date(2024, 12, 13)

\* ---------------------------------------------------------------- C15
SameKey(r, s) == r.Symbol = s.Symbol /\ r.Date = s.Date

\* C15: after any sequence of successful upserts, within this upload or on
\* top of records of earlier uploads, the store holds at most one record for
\* each (symbol, date).
C15_OneRecordPerKey ==
    \A r \in db.rows : \A s \in db.rows : SameKey(r, s) => r = s

C15_Witness ==
    /\ Done
    /\ db0 = SeededDB
    /\ Len(calls) = 2
    /\ calls[1].err = "" /\ calls[2].err = ""
    /\ SameKey(calls[1].rows[1], calls[1].rows[2])
    /\ SameKey(calls[2].rows[1], calls[1].rows[1])
    /\ \E r \in db0.rows : SameKey(r, calls[1].rows[1])
    /\ Cardinality(db.rows) = 2

\* ---------------------------------------------------------------- C16
\* the last row of a batch with the key of record r
LastWithKey(rows, r) ==
    rows[CHOOSE i \in 1..Len(rows) :
            /\ SameKey(rows[i], r)
            /\ \A j \in (i + 1)..Len(rows) : ~SameKey(rows[j], r)]

\* a step in which BulkCreate returned nil
UpsertStep == CallStep /\ Last(calls').err = ""

\* C16: a successful upsert keeps every record: one whose key is in the batch
\* keeps its ID, key and creation time and gets open, high, low, close, volume
\* and the update time overwritten from the batch; one whose key is not in the
\* batch is unchanged; no step of the ingestion removes a record.
C16_UpsertFrame ==
    /\ [][UpsertStep =>
            \A r \in db.rows :
                LET rows == Last(calls').rows
                IN  IF \E i \in 1..Len(rows) : SameKey(rows[i], r)
                    THEN LET new == LastWithKey(rows, r)
                         IN  [r EXCEPT !.Open = new.Open, !.High = new.High,
                                       !.Low = new.Low, !.Close = new.Close,
                                       !.Volume = new.Volume,
                                       !.UpdatedAt = db.clock] \in db'.rows
                    ELSE r \in db'.rows]_vars
    /\ [][\A r \in db.rows : \E s \in db'.rows :
                s.ID = r.ID /\ SameKey(s, r) /\ s.CreatedAt = r.CreatedAt]_vars

C16_Witness ==
    /\ db0 = SeededDB
    /\ Len(calls) = 1 /\ calls[1].err = ""
    /\ \E r \in db.rows :
        /\ r.ID = 1 /\ r.CreatedAt = 0 /\ r.UpdatedAt = 1
        /\ r.Open = 2 /\ r.High = 3 /\ r.Low = 1 /\ r.Close = 2 /\ r.Volume = 10
    /\ \E r \in db.rows : r.ID = 2 /\ r.CreatedAt = 1 /\ r.Date = Date(2024, 1, 3)
    /\ Cardinality(db.rows) = 2

\* ---------------------------------------------------------------- C17
\* the store holds row as its key's record
IsPersisted(store, row) ==
    \E r \in store.rows :
        /\ SameKey(r, row)
        /\ r.Open = row.Open /\ r.High = row.High /\ r.Low = row.Low
        /\ r.Close = row.Close /\ r.Volume = row.Volume

\* C17: BulkCreate is all-or-nothing: when it returns an error the store is
\* exactly as before the call and its rows are added to failed_count only;
\* when it returns nil every row of the batch is persisted (the last row of a
\* key standing for that key) and its rows are added to success_count only;
\* on an empty batch it returns nil and leaves the store unchanged.
C17_AllOrNothing ==
    /\ [][CallStep =>
            LET c == Last(calls')
            IN  IF c.err # ""
                THEN /\ db' = db
                     /\ successCount' = successCount
                     /\ failedCount' = failedCount + Len(c.rows)
                ELSE /\ \A j \in 1..Len(c.rows) :
                            IsPersisted(db', LastWithKey(c.rows, c.rows[j]))
                     /\ successCount' = successCount + Len(c.rows)
                     /\ failedCount' = failedCount]_vars
    /\ [](\A dbOK \in BOOLEAN : BulkCreate(db, <<>>, dbOK) = [err |-> "", db |-> db])
    /\ [](\A i \in 1..Len(calls) : calls[i].err = "" =>
            \A j \in 1..Len(calls[i].rows) :
                \E r \in db.rows : SameKey(r, calls[i].rows[j]))

C17_Witness ==
    /\ Done
    /\ db0 = EmptyDB
    /\ Len(calls) = 2
    /\ calls[1].err # "" /\ Len(calls[1].rows) = 2
    /\ calls[2].err = ""
    /\ ~SameKey(calls[1].rows[1], calls[1].rows[2])
    /\ result.SuccessCount = 1 /\ result.FailedCount = 2
    /\ Cardinality(db.rows) = 1

\* ---------------------------------------------------------------- C19
\* C19: the report's message is "processed successfully" exactly when
\* failed_count is 0; otherwise it is "processed with N errors" where N is
\* failed_count, not the number of entries of the error list.
C19_MessageFromFailedCount ==
    Returned =>
        /\ result.Message.text = "CSV file processed successfully"
                <=> result.FailedCount = 0
        /\ result.FailedCount # 0 =>
                /\ result.Message.text = "CSV file processed with %d errors"
                /\ result.Message.n = result.FailedCount

C19_Witness ==
    /\ Returned
    /\ result.FailedCount = 3
    /\ Len(errors) = 2
    /\ Len(result.Errors) = 2
    /\ result.Message.n = 3

\* ---------------------------------------------------------------- C20
\* C20: reading and flushing never overlap.  The batch is full exactly while
\* its flush is pending; from there the only step is the BulkCreate call on
\* that batch, which reads, decodes and validates nothing and hands control
\* back to the read loop with the batch cleared; a step that calls BulkCreate
\* never leaves another flush pending.
C20_ReadFlushExclusive ==
    /\ [](Len(batch) >= batchSize <=> pc = "flushing")
    /\ [][pc = "flushing" =>
            /\ CallStep
            /\ Last(calls').rows = batch
            /\ input' = input /\ eof' = eof
            /\ currentLine' = currentLine
            /\ totalRows' = totalRows
            /\ batch' = <<>>
            /\ pc' = "reading"]_vars
    /\ [][CallStep =>
            /\ pc \in {"flushing", "final"}
            /\ Len(calls') = Len(calls) + 1
            /\ pc' \in {"reading", "report"}]_vars

C20_Witness ==
    /\ pc = "flushing"
    /\ Len(calls) = 1 /\ ~calls[1].final
    /\ Len(input) = 4
    /\ Len(batch) = batchSize

\* ---------------------------------------------------------------- C21
\* C21: an upload over a finite stream that ends reaches Done.  Until
\* end-of-stream it is reading or flushing a full batch; after end-of-stream
\* it calls BulkCreate at most once, then produces the report; once the call
\* has returned, no row is read and BulkCreate is not called.
C21_ReachesDone ==
    /\ <>Done
    /\ [](~eof => pc \in {"start", "reading", "flushing", "done"})
    /\ [](eof => pc \in {"final", "report", "done"})
    /\ [](NumFinalCalls <= 1)
    /\ [][CallStep /\ Last(calls').final => eof /\ pc' = "report"]_vars
    /\ [](Done => (fatal # NULL /\ result = NULL) \/ (eof /\ Returned /\ fatal = NULL))
    /\ [][pc # "done"]_vars

C21_Witness ==
    /\ Done
    /\ Returned
    /\ Len(input) = MaxRows
    /\ NumLoopCalls = 1
    /\ NumFinalCalls = 1

\* ---------------------------------------------------------------- C22
\* C22: the handle of the uploaded file is closed exactly once on every path
\* after it was opened: when UploadCSV returned a report and when it returned
\* a fatal error; it is never closed before UploadCSV returned, and a request
\* that opened no handle closes none.
C22_ClosedExactlyOnce ==
    /\ ctl.closes <= ctl.opens /\ ctl.opens <= 1
    /\ ctl.pos = "returned" => ctl.closes = ctl.opens
    /\ (ctl.pos = "returned" /\ (Returned \/ fatal # NULL)) =>
            ctl.opens = 1 /\ ctl.closes = 1
    /\ ctl.closes > 0 => pc = "done" /\ ctl.pos = "returned"

C22_Witness ==
    /\ ctl.pos = "returned"
    /\ fatal # NULL /\ result = NULL
    /\ ctl.opens = 1 /\ ctl.closes = 1
    /\ ctl.http = 500

\* the same on the path of a report
C22_WitnessReport ==
    /\ ctl.pos = "returned"
    /\ Returned /\ result.FailedCount > 0
    /\ ctl.opens = 1 /\ ctl.closes = 1
    /\ ctl.http = 200

\* ---------------------------------------------------------------- C23
\* the locals of a call running alone on a table of its own: the header item,
\* then the items in order, each BulkCreate call taking the next outcome
RECURSIVE RunFrom(_, _, _, _)
RunFrom(u, store, items, outs) ==
    IF u.pc = "reading"
    THEN IF items = <<>> THEN u
         ELSE RunFrom(StepRead(u, Head(items), u.currentLine), store, Tail(items), outs)
    ELSE IF u.pc = "flushing" \/ (u.pc = "final" /\ Len(u.batch) > 0)
    THEN IF outs = <<>> THEN u
         ELSE LET s == StepFlush(u, store, Head(outs))
              IN  RunFrom(s.u, s.db, items, Tail(outs))
    ELSE IF u.pc = "final" THEN RunFrom(StepFlush(u, store, TRUE).u, store, items, outs)
    ELSE IF u.pc = "report" THEN RunFrom(StepReturn(u), store, items, outs)
    ELSE u

RunAlone(hItem, items, sawEOF, outs) ==
    RunFrom(StepHeader(NewUpload, hItem), EmptyDB,
            IF sawEOF THEN Append(items, EOFItem) ELSE items, outs)

\* the BulkCreate outcomes of the first call
OwnOutcomes == [i \in 1..Len(calls) |-> calls[i].err = ""]

\* C23: two concurrent UploadCSV calls share nothing but the table: under
\* every interleaving, each call returns the report or the fatal error, with
\* the counts, the error entries and their line numbers, that it returns when
\* running alone on the same stream with the same BulkCreate outcomes.
C23_ReportsAsWhenAlone ==
    /\ pc = "done" =>
        LET solo == RunAlone(headerItem, input, eof, OwnOutcomes)
        IN  /\ solo.pc = "done"
            /\ result = solo.result /\ fatal = solo.fatal
            /\ errors = solo.errors /\ currentLine = solo.currentLine
    /\ peer.pc = "done" =>
        LET solo == RunAlone(peer.headerItem, peer.input, peer.eof, peer.outcomes)
        IN  peer = solo

C23_Witness ==
    /\ pc = "done" /\ peer.pc = "done"
    /\ Returned /\ peer.result # NULL
    /\ result.FailedCount = 2 /\ peer.result.FailedCount = 1
    /\ result.SuccessCount = 2 /\ peer.result.SuccessCount = 1
    /\ \E i \in 1..Len(errors) : errors[i].kind = "ParseError" /\ errors[i].Line = 5
    /\ \E i \in 1..Len(peer.errors) : peer.errors[i].Line = 2
    /\ \E r \in db.rows : r.CreatedAt = 1 /\ r.UpdatedAt = 2

\* ---------------------------------------------------------------- C24
\* the columns of the four prices in a record under the canonical header
PriceColumns == 3..6

\* the read loop consumed a record whose first rejected cell is a negative
\* price in column k
NegativePriceStep(k) ==
    /\ pc = "reading"
    /\ Len(input') = Len(input) + 1
    /\ headerItem = RecItem(GoodHeader)
    /\ LET c == Last(input').cells
       IN  /\ c[k].t = "num" /\ c[k].v < 0
           /\ \A j \in 1..(k - 1) : ~CellRejected(FieldOrder[j], c[j])

\* the read loop consumed a record with no rejected cell and a price of 0
ZeroPriceStep ==
    /\ pc = "reading"
    /\ Len(input') = Len(input) + 1
    /\ headerItem = RecItem(GoodHeader)
    /\ LET c == Last(input').cells
       IN  /\ \A j \in 1..Len(FieldOrder) : ~CellRejected(FieldOrder[j], c[j])
           /\ \E k \in PriceColumns : c[k].v = 0

\* C24: a row with a negative price cell is rejected by the decoder as a
\* ParseError on that field (failed_count + 1, total_rows unchanged); a row
\* with a price cell of 0 decodes (total_rows + 1) and is rejected by the
\* validator (failed_count + 1); neither row is added to a batch.
C24_NegativeDecodeZeroValidate ==
    /\ [][\A k \in PriceColumns : NegativePriceStep(k) =>
            /\ Len(errors') = Len(errors) + 1
            /\ Last(errors').kind = "ParseError"
            /\ Last(errors').Field = FieldOrder[k]
            /\ Last(errors').Value = Last(input').cells[k]
            /\ failedCount' = failedCount + 1
            /\ totalRows' = totalRows
            /\ batch' = batch]_vars
    /\ [][ZeroPriceStep =>
            /\ Len(errors') = Len(errors) + 1
            /\ Last(errors').kind = "validation"
            /\ failedCount' = failedCount + 1
            /\ totalRows' = totalRows + 1
            /\ batch' = batch]_vars
    /\ [](\A i \in 1..Len(calls) : \A j \in 1..Len(calls[i].rows) :
            LET r == calls[i].rows[j]
            IN  r.Open > 0 /\ r.High > 0 /\ r.Low > 0 /\ r.Close > 0)

C24_Witness ==
    /\ Done /\ Returned
    /\ Len(input) = 3
    /\ input[1] = RecItem(LineNegOpen)
    /\ input[2] = RecItem(LineZeroLow)
    /\ input[3] = RecItem(LineA)
    /\ result.TotalRows = 2 /\ result.FailedCount = 2 /\ result.SuccessCount = 1
    /\ errors[1].kind = "ParseError" /\ errors[1].Field = "open"
    /\ errors[2].kind = "validation"
       /\ errors[2].Message = "all prices must be positive"

\* ---------------------------------------------------------------- C25
\* the record in the canonical column order, found by the letters of the
\* header names alone
CanonicalOf(header, cells) ==
    [k \in 1..Len(requiredHeaders) |->
        cells[CHOOSE i \in 1..Len(header) : header[i].s = requiredHeaders[k]]]
CanonicalHeader == [k \in 1..Len(requiredHeaders) |-> Plain(requiredHeaders[k])]

\* ParseRow of a parser whose header was the canonical one
CanonicalParse(header, cells) ==
    LET h == ParseHeader(RecItem(CanonicalHeader))
    IN  ParseRow(RecItem(CanonicalOf(header, cells)), h.headerIndexes, h.nfields,
                 h.currentLine)

\* C25: whatever the order of the columns, the unknown columns added and the
\* letter case and surrounding white space of the header names, ParseHeader
\* succeeds and ParseRow returns the typed row, or the error with its line,
\* field, value and message, that it returns for the same cells under the
\* canonical header.
C25_ColumnOrderIrrelevant ==
    /\ pc # "done"
    /\ pc = "parse" => fatal = NULL /\ currentLine = 1
    /\ pc = "parsed" =>
        LET canon == CanonicalParse(headerItem.cells, input[1].cells)
        IN  /\ result = (IF canon.status = "row" THEN canon.row ELSE NULL)
            /\ fatal = canon.err
            /\ currentLine = canon.currentLine

C25_Witness ==
    /\ pc = "parsed"
    /\ Len(headerItem.cells) = 9
    /\ headerItem.cells[2] = Text("open", TRUE, TRUE)
    /\ result # NULL /\ result.Open = 2 /\ result.High = 4 /\ result.Low = 1
    /\ result.Close = 3 /\ result.Volume = 10
    /\ result.Symbol = Text("msft", TRUE, FALSE)

C25_WitnessError ==
    /\ pc = "parsed"
    /\ headerItem.cells[1] = Text("volume", FALSE, TRUE)
    /\ result = NULL /\ fatal.kind = "ParseError" /\ fatal.Field = "low"

\* ---------------------------------------------------------------- C26
\* the rows of the batch not yet handed to the store: after the last flush
\* the slice is left as it is, but none of its rows is pending
PendingRows == IF pc \in {"reading", "flushing", "final"} THEN Len(batch) ELSE 0

\* C26: throughout an upload successCount + failedCount + (rows pending in
\* the batch) equals totalRows + (calls of ParseRow that returned an error
\* so far); in the report SuccessCount + FailedCount equals TotalRows + that
\* number, and SuccessCount never exceeds TotalRows.
C26_CountersBalance ==
    /\ successCount + failedCount + PendingRows = totalRows + NumUndecoded
    /\ successCount <= totalRows
    /\ Returned =>
        /\ result.SuccessCount + result.FailedCount = result.TotalRows + NumUndecoded
        /\ result.SuccessCount <= result.TotalRows

C26_Witness ==
    /\ Returned
    /\ NumUndecoded >= 1
    /\ NumFailedCalls >= 1
    /\ result.SuccessCount >= 1

\* ---------------------------------------------------------------- C27
\* C27: a report lists errors exactly when its FailedCount is positive, and
\* the entries collected before capping never outnumber the failed rows.
C27_ErrorsIffFailed ==
    /\ Len(errors) <= failedCount
    /\ Len(errors) > 0 <=> failedCount > 0
    /\ Returned => (Len(result.Errors) > 0 <=> result.FailedCount > 0)

C27_Witness ==
    /\ Returned
    /\ result.FailedCount > Len(errors)
    /\ Len(errors) > ErrorCap
    /\ NumFailedCalls >= 1

\* ---------------------------------------------------------------- C28
\* C28: UploadCSV returns in the end on every stream, also on one whose
\* reads after the header keep failing with an error that is not
\* end-of-stream.
C28_AlwaysReturns == <>Done

\* ---------------------------------------------------------------- C29
\* the rows of the calls of BulkCreate that returned nil, in call order
RECURSIVE FlushedRows(_)
FlushedRows(cs) ==
    IF cs = <<>> THEN <<>>
    ELSE (IF Head(cs).err = "" THEN Head(cs).rows ELSE <<>>) \o FlushedRows(Tail(cs))

\* the store holds, for every key among rows, one record, with the prices
\* and volume of the last of rows with that key
HoldsLastOf(store, rows) ==
    \A i \in 1..Len(rows) :
        LET last == LastWithKey(rows, rows[i])
        IN  /\ IsPersisted(store, last)
            /\ Cardinality({r \in store.rows : SameKey(r, rows[i])}) = 1

\* C29: after an upload whose flushes all succeeded, the record of every key
\* that has a valid row carries open, high, low, close and volume of the last
\* valid row with that key in input order, whether the earlier rows of the
\* key were in the same batch or in an earlier one; when flushes failed, those
\* of the last row with that key among the batches that were flushed.
C29_LastValidRowWins ==
    Returned =>
        LET valid == ValidRows
            flushed == FlushedRows(calls)
        IN  /\ NumFailedCalls = 0 => flushed = valid /\ HoldsLastOf(db, valid)
            /\ HoldsLastOf(db, flushed)

\* the key of LineA three times: twice in one batch, once in the next, over a
\* stored record of that key
C29_Witness ==
    /\ Returned
    /\ db0 = SeededDB
    /\ NumFailedCalls = 0
    /\ Len(calls) = 2
    /\ input = <<RecItem(LineA2), RecItem(LineA), RecItem(LineA2)>>
    /\ \E r \in db.rows : r.ID = 1 /\ r.Open = 6 /\ r.Volume = 20

\* the last row of the key was in a batch that failed: the earlier one stands
C29_WitnessFailedFlush ==
    /\ Returned
    /\ NumFailedCalls = 1
    /\ input = <<RecItem(LineA2), RecItem(LineM), RecItem(LineA)>>
    /\ calls[1].err = "" /\ calls[2].err # ""
    /\ \E r \in db.rows : r.Open = 6 /\ r.Volume = 20

\* ---------------------------------------------------------------- C30
\* the request has returned after calling UploadCSV
Recorded == ctl.pos = "returned" /\ ctl.metrics # NULL

\* C30: the controller records a report as "success" exactly when its error
\* list is empty, as "error" exactly when the list is non-empty and
\* SuccessCount is 0, and as "partial" otherwise; a fatal ingestion error is
\* recorded as "error" with zero rows; a file of a valid header and no data
\* row is "success"; an upload with a persisted batch and a failure is
\* "partial".
C30_StatusOfReport ==
    Recorded =>
        LET m == ctl.metrics
        IN  /\ m.status \in {"success", "error", "partial"}
            /\ fatal # NULL =>
                m = [success |-> 0, failed |-> 0, status |-> "error"]
            /\ Returned =>
                /\ m.success = result.SuccessCount /\ m.failed = result.FailedCount
                /\ m.status = "success" <=> Len(result.Errors) = 0
                /\ m.status = "error" <=>
                    Len(result.Errors) > 0 /\ result.SuccessCount = 0
                /\ m.status = "partial" <=>
                    Len(result.Errors) > 0 /\ result.SuccessCount > 0
                /\ input = <<>> => m.status = "success"
                /\ (NumFailedCalls < Len(calls) /\ failedCount > 0) =>
                    m.status = "partial"

\* a batch persisted, a row rejected by the decoder
C30_Witness ==
    /\ Recorded /\ Returned
    /\ ctl.metrics = [success |-> 2, failed |-> 1, status |-> "partial"]
    /\ NumFailedCalls = 0

C30_WitnessEmptyFile ==
    /\ Recorded /\ Returned
    /\ input = <<>>
    /\ ctl.metrics = [success |-> 0, failed |-> 0, status |-> "success"]

C30_WitnessFatal ==
    /\ Recorded /\ fatal # NULL
    /\ ctl.metrics.status = "error" /\ ctl.http = 500

C30_WitnessError ==
    /\ Recorded /\ Returned
    /\ ctl.metrics.status = "error" /\ ctl.metrics.failed = 2

====
